---- MODULE Spec2Model ----
(***************************************************************************)
(* Campaign dispatcher of the Afroboost back end (backend/scheduler.py)    *)
(* over the campaign store written by backend/server.py.                   *)
(*                                                                         *)
(* The store holds campaign documents (dictionaries whose fields may be    *)
(* absent) and a read-only contact directory.  One sweep, run_scheduler,   *)
(* reads the campaigns in status scheduled or sending and hands each one   *)
(* to process_campaign, which resolves due dates and contacts, calls the   *)
(* delivery client and persists a field-scoped update.                     *)
(***************************************************************************)
EXTENDS Integers, Sequences, FiniteSets, TLC

VARIABLES
    campaigns,   \* db.campaigns: campaign id -> document
    clock,       \* the wall clock read by get_current_utc_time
    last,        \* what the last step did: the sweep's report and its delivery calls
    attempts,    \* history: delivery-client calls made so far per <<campaign, contact>>
    deliveries,  \* history: <<campaign, contact>> pairs a delivery call succeeded for
    running,     \* the locals of a run_scheduler call that is under way
    requests     \* history: number of management requests served by server.py

vars == <<campaigns, clock, last, attempts, deliveries, running, requests>>

----------------------------------------------------------------------------
(* Bounds and program constants *)

\* The clock runs from 0 to MaxTime; scheduled instants lie in 1..MaxTime.
MaxTime == 4

\* The step-by-step specifications start at most MaxSweeps run_scheduler calls.
MaxSweeps == 2

\* The management endpoints serve at most MaxRequests requests.
MaxRequests == 1

\* scheduler.py:56
MAX_RETRY_ATTEMPTS == 3

----------------------------------------------------------------------------
(* Dictionaries *)

\* dict.get(key, default)
Get(d, key, default) == IF key \in DOMAIN d THEN d[key] ELSE default

\* The empty dict {} / the empty list []
EmptyDict == <<>>

\* Sum of f over the finite set S
RECURSIVE SumOver(_, _)
SumOver(f, S) ==
    IF S = {} THEN 0
    ELSE LET x == CHOOSE y \in S : TRUE
         IN f[x] + SumOver(f, S \ {x})

\* set(list)
ToSet(seq) == {seq[i] : i \in 1..Len(seq)}

----------------------------------------------------------------------------
(* Date strings.  A date string is what the store holds: a wall-clock      *)
(* reading and a timezone suffix.  Two different strings can denote the    *)
(* same instant; sentDates and scheduledDates are compared as strings.     *)

\* Python None for a date field
NoDate == [wall |-> 0, tz |-> "None"]

\* A string datetime.fromisoformat rejects
BadDate == [wall |-> 0, tz |-> "bad"]

\* parse_scheduled_date's None
NoneDt == -1

\* The ISO string written for instant i, in one of three spellings:
\* "...Z", "...+01:00" (an hour ahead of UTC) and a naive string.
Iso(i) ==
    CASE i % 3 = 1 -> [wall |-> i, tz |-> "Z"]
      [] i % 3 = 2 -> [wall |-> i + 1, tz |-> "+01:00"]
      [] OTHER     -> [wall |-> i, tz |-> ""]

\* `if not date_str`
Truthy(date_str) == date_str.tz # "None"

\* parse_scheduled_date that takes a string it cannot parse for the epoch
parse_scheduled_date_lenient(date_str) ==
    IF ~Truthy(date_str) THEN NoneDt
    ELSE CASE date_str.tz = "Z"      -> date_str.wall
           [] date_str.tz = "+01:00" -> date_str.wall - 1
           [] date_str.tz = ""       -> date_str.wall
           [] OTHER                  -> 0

parse_scheduled_date(date_str) ==
    IF ~Truthy(date_str) THEN NoneDt
    ELSE CASE date_str.tz = "Z"      -> date_str.wall        \* 'Z' -> '+00:00'
           [] date_str.tz = "+01:00" -> date_str.wall - 1    \* aware datetime
           [] date_str.tz = ""       -> date_str.wall        \* naive: taken as UTC
           [] OTHER                  -> NoneDt               \* fromisoformat raised

----------------------------------------------------------------------------
(* The contact directory db.users (read-only for the dispatcher) *)

users ==
    << [id |-> "u1", name |-> "Ama",  email |-> "ama@x",  whatsapp |-> "+41"],
       [id |-> "u2", name |-> "Kofi", email |-> "kofi@x", whatsapp |-> ""],
       [id |-> "u3", name |-> "Esi",  email |-> "",       whatsapp |-> "+42"] >>

ContactIds == {users[i].id : i \in 1..Len(users)}

\* Contacts the delivery client can be called for
EmailableIds == {users[i].id : i \in {j \in 1..Len(users) : users[j].email # ""}}

\* db.users.find(...) of process_campaign and launch_campaign
find_contacts(target_type, selected_contacts) ==
    IF target_type = "all" THEN users
    ELSE SelectSeq(users, LAMBDA u : u.id \in selected_contacts)

----------------------------------------------------------------------------
(* process_campaign *)

\* normalized_dates with scheduledAt added to a non-empty scheduledDates as well
normalized_dates_merged(campaign) ==
    LET scheduled_at    == Get(campaign, "scheduledAt", NoDate)
        scheduled_dates == Get(campaign, "scheduledDates", <<>>)
    IN IF Truthy(scheduled_at) THEN Append(scheduled_dates, scheduled_at)
       ELSE scheduled_dates

\* normalized_dates that prefers scheduledAt whenever it is set
normalized_dates_single_first(campaign) ==
    LET scheduled_at    == Get(campaign, "scheduledAt", NoDate)
        scheduled_dates == Get(campaign, "scheduledDates", <<>>)
    IN IF Truthy(scheduled_at) THEN <<scheduled_at>> ELSE scheduled_dates

\* Date resolution: scheduledAt stands in when scheduledDates is empty
normalized_dates(campaign) ==
    LET scheduled_at    == Get(campaign, "scheduledAt", NoDate)
        scheduled_dates == Get(campaign, "scheduledDates", <<>>)
    IN IF Truthy(scheduled_at) /\ scheduled_dates = <<>>
       THEN <<scheduled_at>>
       ELSE scheduled_dates

\* is_due without the test against sentDates
is_due_again(date_str, sent_dates, now) ==
    /\ parse_scheduled_date(date_str) # NoneDt
    /\ parse_scheduled_date(date_str) <= now

\* Whether one scheduled date is to be processed now
is_due(date_str, sent_dates, now) ==
    /\ parse_scheduled_date(date_str) # NoneDt
    /\ parse_scheduled_date(date_str) <= now
    /\ date_str \notin sent_dates

dates_to_process(scheduled_dates, sent_dates, now) ==
    SelectSeq(scheduled_dates, LAMBDA d : is_due(d, sent_dates, now))

already_sent(results, contact_id) ==
    \E i \in 1..Len(results) :
        /\ results[i].contactId = contact_id
        /\ results[i].channel = "email"
        /\ results[i].status = "sent"

\* f"{contact_id}_email"
retry_key(contact_id) == <<contact_id, "email">>

\* retries_exhausted with > for >=
retries_exhausted_late(current_retries) == current_retries > MAX_RETRY_ATTEMPTS

retries_exhausted(current_retries) == current_retries >= MAX_RETRY_ATTEMPTS

\* The index of the first record for (contact, email), 0 when there is none
find_result(results, contact_id) ==
    LET hits == {i \in 1..Len(results) :
                    results[i].contactId = contact_id /\ results[i].channel = "email"}
    IN IF hits = {} THEN 0 ELSE CHOOSE i \in hits : \A j \in hits : i <= j

\* upsert_result that always appends
upsert_result_append(results, result_entry) == Append(results, result_entry)

\* "Chercher et mettre a jour ou ajouter"
upsert_result(results, result_entry) ==
    LET i == find_result(results, result_entry.contactId)
    IN IF i # 0 THEN [results EXCEPT ![i] = result_entry]
       ELSE Append(results, result_entry)

\* skip_without_email that counts the contact as a failure
skip_without_email_counting(st) == [st EXCEPT !.fail_count = @ + 1]

\* "if not contact_email: continue"
skip_without_email(st) == st

\* count_already_sent that skips the contact without counting it
skip_already_sent(st) == st

\* success_count += 1 for a contact already recorded as sent
count_already_sent(st) == [st EXCEPT !.success_count = @ + 1]

\* count_exhausted that leaves a failed record for the contact
count_exhausted_recording(st, contact_id) ==
    [st EXCEPT !.fail_count = @ + 1,
               !.results = Append(@, [contactId |-> contact_id, channel |-> "email",
                                      status |-> "failed"])]

\* count_exhausted that passes over the contact without counting it
count_exhausted_uncounted(st, contact_id) == st

\* count_exhausted that increments the counter all the same
count_exhausted_incrementing(st, contact_id) ==
    [st EXCEPT !.fail_count = @ + 1,
               !.retry_counts = (retry_key(contact_id) :>
                                    (Get(@, retry_key(contact_id), 0) + 1)) @@ @]

\* fail_count += 1 for a contact whose retries are used up: no call, no increment
count_exhausted(st, contact_id) == [st EXCEPT !.fail_count = @ + 1]

\* record_success that counts the delivery and keeps results as they were
record_success_unrecorded(st, result_entry) ==
    [st EXCEPT !.success_count = @ + 1]

\* The branch taken when the delivery succeeded (or was simulated)
record_success(st, result_entry) ==
    [st EXCEPT !.success_count = @ + 1,
               !.results = upsert_result(@, result_entry)]

\* record_failure that marks the contact's record as failed
record_failure_marking(st, contact_id, current_retries) ==
    [st EXCEPT !.fail_count = @ + 1,
               !.retry_counts = (retry_key(contact_id) :> (current_retries + 1)) @@ @,
               !.results = upsert_result(@, [contactId |-> contact_id,
                                             channel |-> "email",
                                             status |-> "failed"])]

\* The branch taken when the delivery failed
record_failure(st, contact_id, current_retries) ==
    [st EXCEPT !.fail_count = @ + 1,
               !.retry_counts = (retry_key(contact_id) :> (current_retries + 1)) @@ @]

\* deliver that calls the delivery client in a dry run too
deliver_always(st, contact_id, ok, dry_run) ==
    [st EXCEPT !.calls = @ \cup {contact_id},
               !.delivered = IF contact_id \in ok THEN @ \cup {contact_id} ELSE @]

\* send_campaign_email is called unless the sweep is a dry run; ok is the set of
\* contacts for which the call returns success.  calls and delivered record the
\* calls made and those that succeeded.
deliver(st, contact_id, ok, dry_run) ==
    IF dry_run THEN st
    ELSE [st EXCEPT !.calls = @ \cup {contact_id},
                    !.delivered = IF contact_id \in ok THEN @ \cup {contact_id} ELSE @]

\* One turn of the loop over contacts.  st carries the loop's locals.
send_to_contact(st, contact, now, ok, dry_run) ==
    LET contact_id      == contact.id
        current_retries == Get(st.retry_counts, retry_key(contact_id), 0)
        success         == dry_run \/ contact_id \in ok
        result_entry    == [contactId    |-> contact_id,
                            contactName  |-> contact.name,
                            contactEmail |-> contact.email,
                            channel      |-> "email",
                            status       |-> "sent",
                            sentAt       |-> now]
        sent            == deliver(st, contact_id, ok, dry_run)
    IN IF contact.email = "" THEN skip_without_email(st)
       ELSE IF already_sent(st.results, contact_id) THEN count_already_sent(st)
       ELSE IF retries_exhausted(current_retries) THEN count_exhausted(st, contact_id)
       ELSE IF success THEN record_success(sent, result_entry)
       ELSE record_failure(sent, contact_id, current_retries)

RECURSIVE send_loop(_, _, _, _, _, _)
send_loop(st, contacts, i, now, ok, dry_run) ==
    IF i > Len(contacts) THEN st
    ELSE send_loop(send_to_contact(st, contacts[i], now, ok, dry_run),
                   contacts, i + 1, now, ok, dry_run)

\* merge_sent_dates that keeps sentDates as read
merge_sent_dates_dropped(sent_dates, due) == sent_dates

merge_sent_dates(sent_dates, due) == sent_dates \cup ToSet(due)

\* all_dates_processed with > (proper superset) for >=
all_dates_processed_strict(sent_dates, scheduled_dates) ==
    /\ ToSet(scheduled_dates) \subseteq sent_dates
    /\ ToSet(scheduled_dates) # sent_dates

\* all_dates_processed that is content with one scheduled date sent
all_dates_processed_any(sent_dates, scheduled_dates) ==
    ToSet(scheduled_dates) \cap sent_dates # {}

all_dates_processed(sent_dates, scheduled_dates) ==
    ToSet(scheduled_dates) \subseteq sent_dates

\* new_status that keeps a campaign with dates to come in status sending
new_status_sending(success_count, fail_count, all_done) ==
    IF fail_count > 0 /\ success_count = 0 THEN "failed"
    ELSE IF all_done THEN "completed"
    ELSE "sending"

\* new_status that looks at the dates before the counts
new_status_dates_first(success_count, fail_count, all_done) ==
    IF all_done THEN "completed"
    ELSE IF fail_count > 0 /\ success_count = 0 THEN "failed"
    ELSE "scheduled"

new_status(success_count, fail_count, all_done) ==
    IF fail_count > 0 /\ success_count = 0 THEN "failed"
    ELSE IF all_done THEN "completed"
    ELSE "scheduled"

\* no_contact_update that gives the campaign up as failed
no_contact_update_failed(now) ==
    [kind |-> "set",
     set |-> [status |-> "failed", updatedAt |-> now],
     addToSet |-> {}]

\* The update issued when no contact resolves: "Marquer comme terminee"
no_contact_update(now) ==
    [kind |-> "set",
     set |-> [status |-> "completed", updatedAt |-> now],
     addToSet |-> {}]

\* channel_gate_update that always completes the campaign
channel_gate_update_completed(scheduled_dates, sent_dates, due, now) ==
    [kind |-> "set",
     set |-> [status |-> "completed", updatedAt |-> now],
     addToSet |-> ToSet(due)]

\* The update issued when the email channel is disabled: the due dates are
\* folded into sentDates with $addToSet
channel_gate_update(scheduled_dates, sent_dates, due, now) ==
    [kind |-> "set",
     set |-> [status |-> IF ToSet(scheduled_dates) \subseteq
                                (sent_dates \cup ToSet(due))
                            THEN "completed" ELSE "scheduled",
              updatedAt |-> now],
     addToSet |-> ToSet(due)]

\* What process_campaign returns and the update_one it issues.  update.set is
\* the $set document, update.addToSet the $addToSet of sentDates; kind "none"
\* means no update_one was issued.
NoUpdate == [kind |-> "none", set |-> EmptyDict, addToSet |-> {}]

Outcome(processed, success_count, fail_count, update, calls, delivered) ==
    [processed |-> processed, success_count |-> success_count,
     fail_count |-> fail_count, update |-> update,
     calls |-> calls, delivered |-> delivered]

process_campaign(campaign, now, ok, dry_run) ==
    LET scheduled_dates == normalized_dates(campaign)
        sent_dates      == Get(campaign, "sentDates", {})
        due             == dates_to_process(scheduled_dates, sent_dates, now)
        contacts        == find_contacts(Get(campaign, "targetType", "all"),
                                         Get(campaign, "selectedContacts", {}))
        email_enabled   == Get(Get(campaign, "channels", EmptyDict), "email", FALSE)
        st0             == [results       |-> Get(campaign, "results", <<>>),
                            retry_counts  |-> Get(campaign, "retryCounts", EmptyDict),
                            success_count |-> 0,
                            fail_count    |-> 0,
                            calls         |-> {},
                            delivered     |-> {}]
        st              == send_loop(st0, contacts, 1, now, ok, dry_run)
        sent_after      == merge_sent_dates(sent_dates, due)
        all_done        == all_dates_processed(sent_after, scheduled_dates)
    IN IF scheduled_dates = <<>> THEN Outcome(FALSE, 0, 0, NoUpdate, {}, {})
       ELSE IF due = <<>> THEN Outcome(FALSE, 0, 0, NoUpdate, {}, {})
       ELSE IF contacts = <<>>
       THEN Outcome(TRUE, 0, 0, no_contact_update(now), {}, {})
       ELSE IF ~email_enabled
       THEN Outcome(TRUE, 0, 0,
                    channel_gate_update(scheduled_dates, sent_dates, due, now),
                    {}, {})
       ELSE Outcome(TRUE, st.success_count, st.fail_count,
                    [kind |-> "set",
                     set |-> [status |-> new_status(st.success_count, st.fail_count,
                                                    all_done),
                              results |-> st.results,
                              sentDates |-> sent_after,
                              retryCounts |-> st.retry_counts,
                              updatedAt |-> now,
                              lastProcessedAt |-> now],
                     addToSet |-> {}],
                    st.calls, st.delivered)

\* db.campaigns.update_one({"id": ...}, {"$set": ..., "$addToSet": ...}):
\* only the named fields are written.
update_one(doc, update) ==
    IF update.kind = "none" THEN doc
    ELSE LET set == update.set
             d1  == [f \in DOMAIN doc \cup DOMAIN set |->
                        IF f \in DOMAIN set THEN set[f] ELSE doc[f]]
         IN IF update.addToSet = {} THEN d1
            ELSE ("sentDates" :> (Get(d1, "sentDates", {}) \cup update.addToSet)) @@ d1

----------------------------------------------------------------------------
(* run_scheduler *)

\* counted_campaigns that counts every campaign process_campaign returned for
counted_campaigns_all(out) == DOMAIN out

\* "if processed:" the campaigns that enter the sweep's three totals
counted_campaigns(out) == {c \in DOMAIN out : out[c].processed}

\* No run_scheduler call is under way
Idle ==
    [active |-> FALSE, dry_run |-> FALSE, snapshot |-> EmptyDict, todo |-> {},
     out |-> EmptyDict, raised |-> {}, started |-> 0, overlap |-> {}]

\* find_campaigns that takes failed campaigns up again
find_campaigns_retrying(store) ==
    {c \in DOMAIN store : store[c].status \in {"scheduled", "sending", "failed"}}

\* db.campaigns.find({"status": {"$in": ["scheduled", "sending"]}})
find_campaigns(store) ==
    {c \in DOMAIN store : store[c].status \in {"scheduled", "sending"}}

\* The sweep: every selected campaign goes through process_campaign, with the
\* delivery outcomes ok[c] (the contacts whose delivery succeeds) chosen by the
\* environment.  The report is what the sweep logs.
Sweep(dry_run, ok) ==
    LET selected == find_campaigns(campaigns)
        out      == [c \in selected |->
                        process_campaign(campaigns[c], clock, ok[c], dry_run)]
        done     == counted_campaigns(out)
    IN /\ campaigns' = [c \in DOMAIN campaigns |->
                           IF c \in selected
                           THEN update_one(campaigns[c], out[c].update)
                           ELSE campaigns[c]]
       /\ last' = [op |-> "sweep",
                   dry_run |-> dry_run,
                   selected |-> selected,
                   out |-> [c \in selected |->
                              [processed     |-> out[c].processed,
                               success_count |-> out[c].success_count,
                               fail_count    |-> out[c].fail_count,
                               calls         |-> out[c].calls,
                               delivered     |-> out[c].delivered]],
                   campaigns_processed |-> Cardinality(done),
                   total_success |-> SumOver([c \in done |-> out[c].success_count], done),
                   total_fail |-> SumOver([c \in done |-> out[c].fail_count], done)]
       /\ attempts' = [k \in DOMAIN attempts |->
                          IF k[1] \in selected /\ k[2] \in out[k[1]].calls
                          THEN attempts[k] + 1
                          ELSE attempts[k]]
       /\ deliveries' = deliveries \cup
                          {k \in DOMAIN attempts :
                              k[1] \in selected /\ k[2] \in out[k[1]].delivered}
       /\ UNCHANGED <<running, requests>>

\* python scheduler.py [--dry-run]: one sweep, the clock standing still
RunScheduler(dry_run) ==
    /\ \E ok \in [DOMAIN campaigns -> SUBSET EmailableIds] : Sweep(dry_run, ok)
    /\ UNCHANGED clock

\* Time passes between two invocations
Tick ==
    /\ clock < MaxTime
    /\ clock' = clock + 1
    /\ last' = [op |-> "tick"]
    /\ UNCHANGED <<campaigns, attempts, deliveries, running, requests>>

----------------------------------------------------------------------------
(* The campaigns the management endpoints of server.py put in the store *)

\* scheduledDates as a management update can set it: the ascending list of a
\* set of parseable date strings, or a list that ends in an unparseable one
\* (the empty list is the absent field)
RECURSIVE SortedDates(_, _)
SortedDates(S, i) ==
    IF i > MaxTime THEN <<>>
    ELSE (IF Iso(i) \in S THEN <<Iso(i)>> ELSE <<>>) \o SortedDates(S, i + 1)

DateStrings == {Iso(i) : i \in 1..MaxTime}

Schedules ==
    {SortedDates(S, 1) : S \in SUBSET DateStrings}
    \cup {<<BadDate>>, <<Iso(1), BadDate>>}

Targets ==
    {[targetType |-> "all", selectedContacts |-> {}]} \cup
    {[targetType |-> "selected", selectedContacts |-> s] :
        s \in {{}, {"u1"}, {"u3", "ghost"}, {"ghost"}}}

Channels ==
    {[whatsapp |-> TRUE,  email |-> FALSE, instagram |-> FALSE],
     [whatsapp |-> TRUE,  email |-> TRUE,  instagram |-> FALSE]}

\* create_campaign: Campaign(...).model_dump()
create_campaign(id, scheduled_at, target, channels) ==
    [id |-> id,
     name |-> "promo",
     message |-> "hello",
     targetType |-> target.targetType,
     selectedContacts |-> target.selectedContacts,
     channels |-> channels,
     scheduledAt |-> scheduled_at,
     status |-> IF Truthy(scheduled_at) THEN "scheduled" ELSE "draft",
     results |-> <<>>,
     updatedAt |-> 0]

\* update_campaign that puts the campaign back to scheduled when its dates change
update_campaign_rearming(doc, data) ==
    [f \in DOMAIN doc \cup DOMAIN data \cup {"status"} |->
        IF f = "status" /\ "scheduledDates" \in DOMAIN data /\ "status" \notin DOMAIN data
        THEN "scheduled"
        ELSE IF f \in DOMAIN data THEN data[f] ELSE doc[f]]

\* update_campaign: $set of the request body
update_campaign(doc, data) ==
    [f \in DOMAIN doc \cup DOMAIN data |-> IF f \in DOMAIN data THEN data[f] ELSE doc[f]]

\* The pending records launch_campaign prepares: one per contact and enabled channel
RECURSIVE launch_results(_, _, _)
launch_results(contacts, channels, i) ==
    IF i > Len(contacts) THEN <<>>
    ELSE LET c == contacts[i]
             rec(ch) == [contactId |-> c.id, contactName |-> c.name,
                         contactEmail |-> c.email, contactPhone |-> c.whatsapp,
                         channel |-> ch, status |-> "pending", sentAt |-> NoneDt]
         IN (IF channels.whatsapp THEN <<rec("whatsapp")>> ELSE <<>>)
            \o (IF channels.email THEN <<rec("email")>> ELSE <<>>)
            \o (IF channels.instagram THEN <<rec("instagram")>> ELSE <<>>)
            \o launch_results(contacts, channels, i + 1)

launch_campaign(doc, now) ==
    update_campaign(doc,
        [status |-> "sending",
         results |-> launch_results(
                        find_contacts(Get(doc, "targetType", "all"),
                                      Get(doc, "selectedContacts", {})),
                        Get(doc, "channels", EmptyDict), 1),
         updatedAt |-> now])

\* A campaign as created, then optionally given scheduledDates and status
\* scheduled by an update, then optionally launched
NewCampaigns(id) ==
    LET created == {create_campaign(id, at, t, ch) :
                        at \in {NoDate, Iso(2)}, t \in Targets, ch \in Channels}
        updated == created \cup
                   {update_campaign(d, [scheduledDates |-> s, status |-> "scheduled"]) :
                        d \in created, s \in Schedules \ {<<>>}}
    IN updated \cup {launch_campaign(d, 0) : d \in updated}

CampaignIds == {"c1"}

Init ==
    /\ campaigns \in [CampaignIds -> UNION {NewCampaigns(id) : id \in CampaignIds}]
    /\ \A c \in CampaignIds : campaigns[c].id = c
    /\ clock = 0
    /\ last = [op |-> "init"]
    /\ attempts = [k \in CampaignIds \X ContactIds |-> 0]
    /\ deliveries = {}
    /\ running = Idle
    /\ requests = 0

Next ==
    \/ Tick
    \/ RunScheduler(FALSE)
    \/ RunScheduler(TRUE)

\* python scheduler.py --loop [--dry-run]: one turn of main's while loop, a sweep
\* followed by time.sleep(args.interval) (one clock unit); the dry-run flag is
\* the process's and stays what it was in the turn before
LoopIteration(dry_run) ==
    /\ clock < MaxTime
    /\ last.op = "sweep" => last.dry_run = dry_run
    /\ \E ok \in [DOMAIN campaigns -> SUBSET EmailableIds] : Sweep(dry_run, ok)
    /\ clock' = clock + 1

NextLoop ==
    \/ LoopIteration(FALSE)
    \/ LoopIteration(TRUE)

Spec == Init /\ [][Next]_vars

\* The dispatcher run in loop mode from the same stores
SpecLoop == Init /\ [][NextLoop]_vars

----------------------------------------------------------------------------
(* main in loop mode, one step per statement of the while loop: the call of   *)
(* run_scheduler, which may raise before it has written anything, and the     *)
(* sleep. last.op tells where the loop stands.                                *)

\* Position of main once an exception has left run_scheduler
on_sweep_exception_uncaught == "exited"

\* except Exception: the error is logged and the loop goes on to time.sleep
on_sweep_exception == "logged"

\* The flag --dry-run is the process's: every turn runs with the same value
SameFlag(dry_run) == last.op # "init" => last.dry_run = dry_run

\* try: run_scheduler(dry_run) returns
MainSweep(dry_run) ==
    /\ last.op \in {"init", "sleep"}
    /\ SameFlag(dry_run)
    /\ \E ok \in [DOMAIN campaigns -> SUBSET EmailableIds] : Sweep(dry_run, ok)
    /\ UNCHANGED clock

\* try: run_scheduler(dry_run) raises: db.campaigns.find is outside the try of
\* the for loop, so a store error there leaves the call with nothing written
MainSweepRaises(dry_run) ==
    /\ last.op \in {"init", "sleep"}
    /\ SameFlag(dry_run)
    /\ last' = [op       |-> "raise",
                dry_run  |-> dry_run,
                main     |-> on_sweep_exception,
                previous |-> IF last.op = "sleep" THEN last.after ELSE "none"]
    /\ UNCHANGED <<campaigns, clock, attempts, deliveries, running, requests>>

\* time.sleep(args.interval): one clock unit; from MaxTime on every date of
\* the store is in the past and the instants are not told apart
MainSleep ==
    /\ \/ last.op = "sweep"
       \/ last.op = "raise" /\ last.main = "logged"
    /\ clock' = IF clock < MaxTime THEN clock + 1 ELSE clock
    /\ last' = [op |-> "sleep", dry_run |-> last.dry_run, after |-> last.op]
    /\ UNCHANGED <<campaigns, attempts, deliveries, running, requests>>

NextMain ==
    \/ MainSweep(FALSE)
    \/ MainSweep(TRUE)
    \/ MainSweepRaises(FALSE)
    \/ MainSweepRaises(TRUE)
    \/ MainSleep

----------------------------------------------------------------------------
(* run_scheduler one step at a time: the read of the campaigns, one turn of   *)
(* the for loop per step, and the ways the call can end                       *)

\* What a turn of the for loop reports of its campaign
Report(out) ==
    [processed     |-> out.processed,
     success_count |-> out.success_count,
     fail_count    |-> out.fail_count,
     calls         |-> out.calls,
     delivered     |-> out.delivered]

\* The histories after the calls made for campaign c
AttemptsAfter(c, calls) ==
    [k \in DOMAIN attempts |->
        IF k[1] = c /\ k[2] \in calls THEN attempts[k] + 1 ELSE attempts[k]]

DeliveriesAfter(c, succeeded) == deliveries \cup {<<c, k>> : k \in succeeded}

\* The run_scheduler call has ended, one way or another
Stopped == [Idle EXCEPT !.started = running.started]

\* campaigns = list(db.campaigns.find(...)); "if not campaigns: return"
StartSweep(dry_run) ==
    /\ ~running.active
    /\ running.started < MaxSweeps
    /\ LET selected == find_campaigns(campaigns)
       IN /\ running' = IF selected = {}
                        THEN [Idle EXCEPT !.started = running.started + 1]
                        ELSE [active   |-> TRUE,
                              dry_run  |-> dry_run,
                              snapshot |-> [c \in selected |-> campaigns[c]],
                              todo     |-> selected,
                              out      |-> EmptyDict,
                              raised   |-> {},
                              started  |-> running.started + 1,
                              overlap  |-> {}]
          /\ last' = [op |-> "start", dry_run |-> dry_run, selected |-> selected]
    /\ UNCHANGED <<campaigns, clock, attempts, deliveries, requests>>

\* persist that writes back the document as the sweep read it
persist_document_read(current, read, update) == update_one(read, update)

\* db.campaigns.update_one({"id": campaign_id}, ...): the update lands on the
\* document as it is in the store now, not on the one the sweep read
persist(current, read, update) == update_one(current, update)

\* One turn of the for loop in which process_campaign returns: the campaign is
\* processed as it was read, its update_one lands on the document as it is now
ProcessCampaign ==
    /\ running.active
    /\ \E c \in running.todo, ok \in SUBSET EmailableIds :
          LET out == process_campaign(running.snapshot[c], clock, ok, running.dry_run)
          IN /\ campaigns' = [campaigns EXCEPT
                                 ![c] = persist(@, running.snapshot[c], out.update)]
             /\ attempts' = AttemptsAfter(c, out.calls)
             /\ deliveries' = DeliveriesAfter(c, out.delivered)
             /\ running' = [running EXCEPT !.todo = @ \ {c},
                                           !.out = (c :> Report(out)) @@ @]
             /\ last' = [op |-> "process", id |-> c, report |-> Report(out)]
    /\ UNCHANGED <<clock, requests>>

\* after_exception that leaves the for loop
after_exception_abort(todo, c) == {}

\* "except Exception" inside the for loop: the loop goes on with the next campaign
after_exception(todo, c) == todo \ {c}

\* One turn of the for loop in which process_campaign raises: db.users.find
\* raises before the send loop, or db.campaigns.update_one raises after it
ProcessRaises ==
    /\ running.active
    /\ \E c \in running.todo, ok \in SUBSET EmailableIds, point \in {"find", "update_one"} :
          LET out  == process_campaign(running.snapshot[c], clock, ok, running.dry_run)
              made == IF point = "update_one" THEN out.calls ELSE {}
          IN /\ out.update.kind # "none"
             /\ attempts' = AttemptsAfter(c, made)
             /\ deliveries' = DeliveriesAfter(c, made \cap out.delivered)
             /\ running' = [running EXCEPT !.todo = after_exception(@, c),
                                           !.raised = @ \cup {c}]
             /\ last' = [op |-> "raise", id |-> c, point |-> point, calls |-> made]
    /\ UNCHANGED <<campaigns, clock, requests>>

\* The for loop is over: the totals of the summary
FinishSweep ==
    /\ running.active
    /\ running.todo = {}
    /\ LET done == counted_campaigns(running.out)
       IN last' = [op |-> "finish",
                   dry_run |-> running.dry_run,
                   selected |-> DOMAIN running.snapshot,
                   out |-> running.out,
                   raised |-> running.raised,
                   campaigns_processed |-> Cardinality(done),
                   total_success |-> SumOver([c \in done |-> running.out[c].success_count], done),
                   total_fail |-> SumOver([c \in done |-> running.out[c].fail_count], done)]
    /\ running' = Stopped
    /\ UNCHANGED <<campaigns, clock, attempts, deliveries, requests>>

\* The process dies between two turns of the for loop
CrashBetweenCampaigns ==
    /\ running.active
    /\ running' = Stopped
    /\ last' = [op |-> "crash", id |-> "", calls |-> {}]
    /\ UNCHANGED <<campaigns, clock, attempts, deliveries, requests>>

\* The calls of the send loop made for the first n contacts
calls_before_crash(contacts, calls, n) ==
    {contacts[i].id : i \in 1..n} \cap calls

\* The process dies inside process_campaign, in the send loop after its n-th
\* contact or between the loop and update_one: nothing of the campaign is written
CrashInCampaign ==
    /\ running.active
    /\ \E c \in running.todo, ok \in SUBSET EmailableIds :
          LET doc      == running.snapshot[c]
              out      == process_campaign(doc, clock, ok, running.dry_run)
              contacts == find_contacts(Get(doc, "targetType", "all"),
                                        Get(doc, "selectedContacts", {}))
          IN \E n \in 1..Len(contacts) :
                LET made == calls_before_crash(contacts, out.calls, n)
                IN /\ out.update.kind # "none"
                   /\ attempts' = AttemptsAfter(c, made)
                   /\ deliveries' = DeliveriesAfter(c, made \cap out.delivered)
                   /\ last' = [op |-> "crash", id |-> c, calls |-> made]
    /\ running' = Stopped
    /\ UNCHANGED <<campaigns, clock, requests>>

\* Two campaigns created with scheduledDates, the email channel enabled: c1 for
\* every contact, c2 for one selected contact
StepIds == {"c1", "c2"}

StepCampaigns(id) ==
    {update_campaign(create_campaign(id, NoDate,
                                     IF id = "c1"
                                     THEN [targetType |-> "all", selectedContacts |-> {}]
                                     ELSE [targetType |-> "selected",
                                           selectedContacts |-> {"u1"}],
                                     [whatsapp |-> FALSE, email |-> TRUE,
                                      instagram |-> FALSE]),
                     [scheduledDates |-> s, status |-> "scheduled"]) :
        s \in IF id = "c1" THEN {<<Iso(1), Iso(2)>>} ELSE {<<Iso(1)>>, <<BadDate>>}}

InitSteps ==
    /\ campaigns \in [StepIds -> UNION {StepCampaigns(id) : id \in StepIds}]
    /\ \A c \in StepIds : campaigns[c].id = c
    /\ clock = 0
    /\ last = [op |-> "init"]
    /\ attempts = [k \in StepIds \X ContactIds |-> 0]
    /\ deliveries = {}
    /\ running = Idle
    /\ requests = 0

\* Time passes between two run_scheduler calls
TickBetweenSweeps == ~running.active /\ Tick

NextSteps ==
    \/ TickBetweenSweeps
    \/ StartSweep(FALSE)
    \/ StartSweep(TRUE)
    \/ ProcessCampaign
    \/ ProcessRaises
    \/ FinishSweep
    \/ CrashBetweenCampaigns
    \/ CrashInCampaign

\* Sweeps run step by step over two campaigns, with exceptions and crashes
SpecSteps == InitSteps /\ [][NextSteps]_vars

\* main in loop mode over the same two campaigns. The process is not stopped
\* from outside: main takes its next step
SpecMain == InitSteps /\ [][NextMain]_vars /\ WF_vars(NextMain)

----------------------------------------------------------------------------
(* Two run_scheduler calls that overlap: cron starts the second while the     *)
(* first is still under way, and both read the store before either writes.    *)
(* running.overlap holds the campaigns the second call has still to process.  *)

StartOverlappingSweeps(dry_run) ==
    /\ ~running.active
    /\ running.started + 2 <= MaxSweeps
    /\ LET selected == find_campaigns(campaigns)
       IN /\ selected # {}
          /\ running' = [active   |-> TRUE,
                         dry_run  |-> dry_run,
                         snapshot |-> [c \in selected |-> campaigns[c]],
                         todo     |-> selected,
                         out      |-> EmptyDict,
                         raised   |-> {},
                         started  |-> running.started + 2,
                         overlap  |-> selected]
          /\ last' = [op |-> "start", dry_run |-> dry_run, selected |-> selected]
    /\ UNCHANGED <<campaigns, clock, attempts, deliveries, requests>>

\* One turn of the second call's for loop: the campaign is processed as that
\* call read it
ProcessOverlapping ==
    /\ running.active
    /\ \E c \in running.overlap, ok \in SUBSET EmailableIds :
          LET out == process_campaign(running.snapshot[c], clock, ok, running.dry_run)
          IN /\ campaigns' = [campaigns EXCEPT
                                 ![c] = persist(@, running.snapshot[c], out.update)]
             /\ attempts' = AttemptsAfter(c, out.calls)
             /\ deliveries' = DeliveriesAfter(c, out.delivered)
             /\ running' = [running EXCEPT !.overlap = @ \ {c}]
             /\ last' = [op |-> "process", id |-> c, report |-> Report(out)]
    /\ UNCHANGED <<clock, requests>>

\* Both calls have gone through their campaigns
FinishOverlappingSweeps ==
    /\ running.overlap = {}
    /\ FinishSweep

NextOverlap ==
    \/ TickBetweenSweeps
    \/ StartOverlappingSweeps(FALSE)
    \/ StartOverlappingSweeps(TRUE)
    \/ ProcessCampaign
    \/ ProcessOverlapping
    \/ FinishOverlappingSweeps

\* Pairs of overlapping sweeps over two campaigns
SpecOverlap == InitSteps /\ [][NextOverlap]_vars

----------------------------------------------------------------------------
(* The management endpoints of server.py at work while the dispatcher runs *)

\* Request bodies of PUT /campaigns/{id}
UpdateBodies ==
    {[name |-> "promo v2", message |-> "hello again"],
     [scheduledDates |-> <<Iso(1), Iso(3)>>],
     [targetType |-> "selected", selectedContacts |-> {"u2"}],
     [channels |-> [whatsapp |-> TRUE, email |-> FALSE, instagram |-> FALSE]],
     [scheduledAt |-> Iso(2), status |-> "scheduled"]}

\* PUT /campaigns/{id}: data["updatedAt"] = now, then $set of the body
UpdateCampaign ==
    /\ requests < MaxRequests
    /\ \E c \in DOMAIN campaigns, data \in UpdateBodies :
          /\ campaigns' = [campaigns EXCEPT
                              ![c] = update_campaign(@, ("updatedAt" :> clock) @@ data)]
          /\ last' = [op |-> "update", id |-> c, fields |-> DOMAIN data]
    /\ requests' = requests + 1
    /\ UNCHANGED <<clock, attempts, deliveries, running>>

\* POST /campaigns/{id}/launch
LaunchCampaign ==
    /\ requests < MaxRequests
    /\ \E c \in DOMAIN campaigns :
          /\ campaigns' = [campaigns EXCEPT ![c] = launch_campaign(@, clock)]
          /\ last' = [op |-> "launch", id |-> c]
    /\ requests' = requests + 1
    /\ UNCHANGED <<clock, attempts, deliveries, running>>

\* The array positions "results.$" can stand for under the query
\* {"results.contactId": contact_id, "results.channel": channel}: the document
\* matches when some record has the contactId and some record has the channel,
\* and the position is that of a record matching one of the two conditions
positional_matches(results, contact_id, channel) ==
    LET by_contact == {i \in 1..Len(results) : results[i].contactId = contact_id}
        by_channel == {i \in 1..Len(results) : results[i].channel = channel}
    IN IF by_contact = {} \/ by_channel = {} THEN {} ELSE by_contact \cup by_channel

\* mark_campaign_sent with "results.$" standing for position i (0: no match):
\* the record is set to sent, then the status to completed when every record
\* is sent
mark_campaign_sent(doc, i, now) ==
    LET results == Get(doc, "results", <<>>)
        marked  == IF i = 0 THEN doc
                   ELSE [doc EXCEPT !.results[i].status = "sent",
                                    !.results[i].sentAt = now]
        all_sent == \A j \in 1..Len(Get(marked, "results", <<>>)) :
                        marked.results[j].status = "sent"
    IN IF all_sent
       THEN update_campaign(marked, [status |-> "completed", updatedAt |-> now])
       ELSE marked

\* POST /campaigns/{id}/mark-sent with body {contactId, channel}
MarkCampaignSent ==
    /\ requests < MaxRequests
    /\ \E c \in DOMAIN campaigns, contact_id \in ContactIds, channel \in {"whatsapp", "email"} :
          LET positions == positional_matches(Get(campaigns[c], "results", <<>>),
                                              contact_id, channel)
          IN \E i \in IF positions = {} THEN {0} ELSE positions :
                /\ campaigns' = [campaigns EXCEPT ![c] = mark_campaign_sent(@, i, clock)]
                /\ last' = [op |-> "mark_sent", id |-> c,
                            contactId |-> contact_id, channel |-> channel]
    /\ requests' = requests + 1
    /\ UNCHANGED <<clock, attempts, deliveries, running>>

\* One campaign for one selected contact on both channels, created as a draft or
\* with two scheduled dates, then possibly launched
ManagedCampaigns(id) ==
    LET created == create_campaign(id, NoDate,
                                   [targetType |-> "selected",
                                    selectedContacts |-> {"u1"}],
                                   [whatsapp |-> TRUE, email |-> TRUE, instagram |-> FALSE])
        dated   == update_campaign(created, [scheduledDates |-> <<Iso(1), Iso(2)>>,
                                             status |-> "scheduled"])
    IN {created, dated, launch_campaign(created, 0), launch_campaign(dated, 0)}

InitManaged ==
    /\ campaigns \in [CampaignIds -> UNION {ManagedCampaigns(id) : id \in CampaignIds}]
    /\ \A c \in CampaignIds : campaigns[c].id = c
    /\ clock = 0
    /\ last = [op |-> "init"]
    /\ attempts = [k \in CampaignIds \X ContactIds |-> 0]
    /\ deliveries = {}
    /\ running = Idle
    /\ requests = 0

NextManaged ==
    \/ TickBetweenSweeps
    \/ StartSweep(FALSE)
    \/ StartSweep(TRUE)
    \/ ProcessCampaign
    \/ FinishSweep
    \/ UpdateCampaign
    \/ LaunchCampaign
    \/ MarkCampaignSent

\* Sweeps run step by step over one campaign while management requests are served
SpecManaged == InitManaged /\ [][NextManaged]_vars

----------------------------------------------------------------------------
(* send_campaign_email: the delivery client *)

\* Python's None as the error of a successful call
NoError == "None"

\* What requests.post can do: raise requests.Timeout, raise another exception
\* (connection refused, ...), or return a response.  A response carries a status
\* code and a body; the body is a JSON object {success?: bool, error?: string}
\* or text that response.json() cannot decode.
StatusCodes == {200, 201, 400, 404, 500, 503}

JsonBodies ==
    {[json |-> TRUE,
      fields |-> (IF s = "absent" THEN EmptyDict ELSE ("success" :> (s = "true")))
                 @@ (IF e = "absent" THEN EmptyDict ELSE ("error" :> e))] :
        s \in {"absent", "true", "false"}, e \in {"absent", "quota"}}

Bodies == JsonBodies \cup {[json |-> FALSE, fields |-> EmptyDict]}

Replies ==
    {[kind |-> "response", status_code |-> code, body |-> b] :
        code \in StatusCodes, b \in Bodies}
    \cup {[kind |-> "timeout"], [kind |-> "exception"]}

\* f"HTTP {response.status_code}: {response.text[:200]}", the body text left out
http_error(status_code) ==
    CASE status_code = 201 -> "HTTP 201"
      [] status_code = 400 -> "HTTP 400"
      [] status_code = 404 -> "HTTP 404"
      [] status_code = 500 -> "HTTP 500"
      [] status_code = 503 -> "HTTP 503"
      [] OTHER -> "HTTP"

\* The payload posted: media_url is a key only when it is truthy
payload_of(to_email, to_name, subject, message, media_url) ==
    LET base == [to_email |-> to_email, to_name |-> to_name,
                 subject |-> subject, message |-> message]
    IN IF media_url # "" THEN ("media_url" :> media_url) @@ base ELSE base

\* read_response that takes every 200 response for a delivery
read_response_unflagged(response) ==
    IF response.status_code = 200
    THEN [success |-> TRUE, error |-> NoError]
    ELSE [success |-> FALSE, error |-> http_error(response.status_code)]

\* The reading of a response that was returned; response.json() raising on an
\* undecodable body lands in "except Exception" and gives str(e)
read_response(response) ==
    IF response.status_code = 200
    THEN IF ~response.body.json
         THEN [success |-> FALSE, error |-> "Expecting value"]
         ELSE IF Get(response.body.fields, "success", FALSE)
         THEN [success |-> TRUE, error |-> NoError]
         ELSE [success |-> FALSE,
               error |-> Get(response.body.fields, "error", "Erreur inconnue")]
    ELSE [success |-> FALSE, error |-> http_error(response.status_code)]

\* One call: posted lists the requests made, raised tells whether an exception
\* leaves the function
send_campaign_email(to_email, to_name, subject, message, media_url, reply) ==
    LET posted == <<payload_of(to_email, to_name, subject, message, media_url)>>
        result == CASE reply.kind = "timeout" ->
                        [success |-> FALSE, error |-> "Timeout lors de l'envoi"]
                    [] reply.kind = "exception" ->
                        [success |-> FALSE, error |-> "Connection refused"]
                    [] OTHER -> read_response(reply)
    IN [success |-> result.success, error |-> result.error,
        posted |-> posted, raised |-> FALSE]

\* A call about to be made: its arguments and what the network will answer
DeliveryCalls ==
    {[op |-> "call", to_email |-> users[i].email, to_name |-> users[i].name,
      media_url |-> m, reply |-> r] :
        i \in {j \in 1..Len(users) : users[j].email # ""},
        m \in {"", "https://cdn/x.jpg"}, r \in Replies}

InitDelivery ==
    /\ campaigns = <<>>
    /\ clock = 0
    /\ attempts = <<>>
    /\ deliveries = {}
    /\ running = Idle
    /\ requests = 0
    /\ last \in DeliveryCalls

\* The call is made and returns
SendCampaignEmail ==
    /\ last.op = "call"
    /\ last' = [op |-> "return",
                call |-> last,
                result |-> send_campaign_email(last.to_email, last.to_name,
                                               "subject", "message",
                                               last.media_url, last.reply)]
    /\ UNCHANGED <<campaigns, clock, attempts, deliveries, running, requests>>

NextDelivery == SendCampaignEmail

\* The delivery client called once with each argument and each answer
SpecDelivery == InitDelivery /\ [][NextDelivery]_vars

----------------------------------------------------------------------------
(* Vocabulary of the properties below, read off the stored documents *)

\* The scheduled dates of a campaign: scheduledDates when it holds any,
\* otherwise the single scheduledAt
EffectiveDates(doc) ==
    IF "scheduledDates" \in DOMAIN doc /\ doc.scheduledDates # <<>>
    THEN {doc.scheduledDates[i] : i \in 1..Len(doc.scheduledDates)}
    ELSE IF "scheduledAt" \in DOMAIN doc /\ doc.scheduledAt.tz # "None"
    THEN {doc.scheduledAt}
    ELSE {}

StoredScheduledDates(doc) ==
    IF "scheduledDates" \in DOMAIN doc
    THEN {doc.scheduledDates[i] : i \in 1..Len(doc.scheduledDates)}
    ELSE {}

StoredSentDates(doc) == IF "sentDates" \in DOMAIN doc THEN doc.sentDates ELSE {}

StoredRetryCounts(doc) == IF "retryCounts" \in DOMAIN doc THEN doc.retryCounts ELSE <<>>

StoredRetries(doc, k) ==
    IF <<k, "email">> \in DOMAIN StoredRetryCounts(doc)
    THEN StoredRetryCounts(doc)[<<k, "email">>]
    ELSE 0

\* The instant a date string denotes, -1 when it denotes none
InstantOf(d) ==
    IF d.tz = "Z" \/ d.tz = "" THEN d.wall
    ELSE IF d.tz = "+01:00" THEN d.wall - 1
    ELSE -1

\* The due dates: scheduled, in the past, absent from sentDates
DueDates(doc, now) ==
    {d \in EffectiveDates(doc) :
        InstantOf(d) >= 0 /\ InstantOf(d) <= now /\ d \notin StoredSentDates(doc)}

\* The contacts of the directory the campaign targets
Resolved(doc) ==
    IF doc.targetType = "all" THEN ContactIds
    ELSE ContactIds \cap doc.selectedContacts

\* Those of them that have an email address
ResolvedWithEmail(doc) == Resolved(doc) \cap EmailableIds

EmailOn(doc) == doc.channels.email

\* The contacts with a result record (k, email, sent)
SentTo(doc) ==
    {k \in ContactIds : \E i \in 1..Len(doc.results) :
        /\ doc.results[i].contactId = k
        /\ doc.results[i].channel = "email"
        /\ doc.results[i].status = "sent"}

\* The step is a sweep that selected campaign c
SweptIn(c) == last'.op = "sweep" /\ c \in last'.selected

----------------------------------------------------------------------------
(* C1 *)

\* C1 as stated: after any sequence of sweeps the stored sentDates of every
\* campaign is a subset of its stored scheduledDates, campaigns scheduled only
\* through scheduledAt included.
C1_SentDatesWithinStoredScheduledDates ==
    \A c \in DOMAIN campaigns :
        StoredSentDates(campaigns[c]) \subseteq StoredScheduledDates(campaigns[c])

\* C1 as amended: after any sequence of sweeps the stored sentDates of every
\* campaign is a subset of its scheduled dates, which are the stored
\* scheduledDates when that list is non-empty and the single scheduledAt otherwise.
C1_SentDatesWithinScheduledDates ==
    \A c \in DOMAIN campaigns :
        StoredSentDates(campaigns[c]) \subseteq EffectiveDates(campaigns[c])

\* A sweep has recorded the date of a campaign scheduled through scheduledAt alone
C1_Witness ==
    \E c \in DOMAIN campaigns :
        /\ last.op = "sweep"
        /\ "scheduledDates" \notin DOMAIN campaigns[c]
        /\ StoredSentDates(campaigns[c]) = {campaigns[c].scheduledAt}

----------------------------------------------------------------------------
(* C2 *)

----------------------------------------------------------------------------
(* C3 *)

\* C3: a sweep makes no delivery call for a contact that the campaign already
\* records as sent on the email channel, and when the sweep reaches the send
\* loop its success count is the number of such contacts (with an email, among
\* the campaign's contacts) plus the number of contacts newly recorded as sent.
C3_SentContactNotResent ==
    [][\A c \in DOMAIN campaigns :
         SweptIn(c) =>
            /\ last'.out[c].calls \cap SentTo(campaigns[c]) = {}
            /\ (last'.out[c].processed /\ EmailOn(campaigns[c])
                    /\ Resolved(campaigns[c]) # {}) =>
                   last'.out[c].success_count =
                       Cardinality(SentTo(campaigns[c]) \cap ResolvedWithEmail(campaigns[c]))
                       + Cardinality(SentTo(campaigns'[c]) \ SentTo(campaigns[c]))]_vars

\* A real sweep with due dates counted a success without any delivery: the
\* contact was already recorded as sent
C3_Witness ==
    \E c \in DOMAIN campaigns :
        /\ last.op = "sweep" /\ ~last.dry_run
        /\ c \in last.selected
        /\ last.out[c].processed
        /\ last.out[c].success_count > 0
        /\ last.out[c].delivered = {}
        /\ SentTo(campaigns[c]) # {}

----------------------------------------------------------------------------
(* C4 *)

\* C4: a sweep leaves the whole document of a campaign without due date
\* unchanged, makes no delivery call for it and does not count it as processed.
C4_NoDueDateNoChange ==
    [][\A c \in DOMAIN campaigns :
         (last'.op = "sweep" /\ DueDates(campaigns[c], clock) = {}) =>
            /\ campaigns'[c] = campaigns[c]
            /\ \A k \in ContactIds : attempts'[<<c, k>>] = attempts[<<c, k>>]
            /\ c \in last'.selected =>
                   ~last'.out[c].processed /\ last'.out[c].calls = {}]_vars

\* A sweep selected a campaign that has scheduled dates, none of them due, and
\* did not process it
C4_Witness ==
    \E c \in DOMAIN campaigns :
        /\ last.op = "sweep"
        /\ c \in last.selected
        /\ ~last.out[c].processed
        /\ EffectiveDates(campaigns[c]) # {}
        /\ DueDates(campaigns[c], clock) = {}

----------------------------------------------------------------------------
(* C5 *)

----------------------------------------------------------------------------
(* C6 *)

\* C6: in every reachable state every entry of every campaign's retryCounts is
\* at most MAX_RETRY_ATTEMPTS (3).
C6_RetryCountsBounded ==
    \A c \in DOMAIN campaigns :
        \A key \in DOMAIN StoredRetryCounts(campaigns[c]) :
            StoredRetryCounts(campaigns[c])[key] <= 3

\* A counter stands at the ceiling
C6_Witness ==
    \E c \in DOMAIN campaigns, k \in ContactIds : StoredRetries(campaigns[c], k) = 3

----------------------------------------------------------------------------
(* C7 *)

\* C7: a campaign's results list never holds two records with the same
\* contactId and channel.
C7_OneResultPerContactChannel ==
    \A c \in DOMAIN campaigns :
        \A i, j \in 1..Len(campaigns[c].results) :
            (/\ campaigns[c].results[i].contactId = campaigns[c].results[j].contactId
             /\ campaigns[c].results[i].channel = campaigns[c].results[j].channel)
            => i = j

\* A sweep has replaced the pending email record of a launched campaign by a
\* sent one; the contact's record for another channel stands beside it
C7_Witness ==
    \E c \in DOMAIN campaigns :
        /\ last.op = "sweep"
        /\ \E i, j \in 1..Len(campaigns[c].results) :
              /\ campaigns[c].results[i].status = "sent"
              /\ campaigns[c].results[j].contactId = campaigns[c].results[i].contactId
              /\ campaigns[c].results[j].channel = "whatsapp"

----------------------------------------------------------------------------
(* C8 *)

\* C8: for a scheduled campaign with one scheduled date, email enabled and one
\* contact with an email, whose delivery fails at every attempt, three
\* consecutive real sweeps run with the date in the past leave the contact's
\* retry counter at 3 and the campaign in status failed.  (In loop mode the
\* sweeps run at clock 0, 1, 2, ...: at clock n the sweeps of instants 0..n-1
\* have run.  An empty results list says the campaign was not launched and no
\* delivery succeeded.)
C8_ThreeFailingSweeps ==
    \A c \in DOMAIN campaigns :
        \A d \in EffectiveDates(campaigns[c]), k \in ContactIds :
            (/\ EffectiveDates(campaigns[c]) = {d}
             /\ InstantOf(d) >= 0
             /\ EmailOn(campaigns[c])
             /\ Resolved(campaigns[c]) = {k}
             /\ ResolvedWithEmail(campaigns[c]) = {k}
             /\ campaigns[c].results = <<>>
             /\ last.op = "sweep" /\ ~last.dry_run
             /\ clock >= InstantOf(d) + 3)
            => /\ StoredRetries(campaigns[c], k) = 3
               /\ campaigns[c].status = "failed"

----------------------------------------------------------------------------
(* C9 *)

\* C9: a campaign that a sweep has set to failed and that has a scheduled date
\* outside sentDates, now due, can be moved to scheduled or completed by a sweep:
\* some sweep step from that state does so.
C9_FailedCanResume ==
    \A c \in DOMAIN campaigns :
        (/\ campaigns[c].status = "failed"
         /\ "lastProcessedAt" \in DOMAIN campaigns[c]
         /\ DueDates(campaigns[c], clock) # {})
        => ENABLED (/\ RunScheduler(FALSE)
                    /\ campaigns'[c].status \in {"scheduled", "completed"})

----------------------------------------------------------------------------
(* C10 *)

\* The real sweep of this step delivers successfully to every contact with an
\* email of the scheduled campaign c, whose scheduled dates are all in the
\* past and whose email channel is enabled
C10_AllDelivered(c) ==
    /\ last'.op = "sweep" /\ ~last'.dry_run
    /\ campaigns[c].status = "scheduled"
    /\ EffectiveDates(campaigns[c]) # {}
    /\ \A d \in EffectiveDates(campaigns[c]) : InstantOf(d) >= 0 /\ InstantOf(d) <= clock
    /\ EmailOn(campaigns[c])
    /\ ResolvedWithEmail(campaigns[c]) \subseteq last'.out[c].delivered

\* After the step: status completed, exactly one sent record per contact with
\* an email, sentDates equal to the scheduled dates
C10_Completed(c) ==
    /\ campaigns'[c].status = "completed"
    /\ \A k \in ResolvedWithEmail(campaigns[c]) :
          Cardinality({i \in 1..Len(campaigns'[c].results) :
                          /\ campaigns'[c].results[i].contactId = k
                          /\ campaigns'[c].results[i].status = "sent"}) = 1
    /\ StoredSentDates(campaigns'[c]) = EffectiveDates(campaigns[c])

\* C10 as stated: for a scheduled campaign whose scheduled dates are all in the
\* past, with email enabled, a sweep in which every contact with an email is
\* delivered successfully leaves status completed, exactly one sent record per
\* such contact and sentDates equal to the scheduled dates.
C10_AllDeliveredCompletes ==
    [][\A c \in DOMAIN campaigns : C10_AllDelivered(c) => C10_Completed(c)]_vars

\* C10 as amended: the same, for a campaign for which at least one contact
\* resolves.
C10_AllDeliveredCompletesWithContacts ==
    [][\A c \in DOMAIN campaigns :
         (C10_AllDelivered(c) /\ Resolved(campaigns[c]) # {}) => C10_Completed(c)]_vars

\* A real sweep has just delivered to every contact with an email of a campaign
\* that was never launched and has completed it with all its dates sent
C10_Witness ==
    \E c \in DOMAIN campaigns :
        /\ last.op = "sweep" /\ ~last.dry_run
        /\ c \in last.selected
        /\ last.out[c].delivered = ResolvedWithEmail(campaigns[c])
        /\ last.out[c].delivered # {}
        /\ campaigns[c].status = "completed"
        /\ Len(campaigns[c].results) = Cardinality(last.out[c].delivered)
        /\ StoredSentDates(campaigns[c]) = EffectiveDates(campaigns[c])
        /\ Cardinality(EffectiveDates(campaigns[c])) > 1

----------------------------------------------------------------------------
(* C11 *)

\* The sweep of this step processes the scheduled campaign c, which has the two
\* scheduled dates d1 and d2: d1 is due, d2 lies in the future
C11_FirstOfTwoDue(c, d1, d2) ==
    /\ last'.op = "sweep"
    /\ campaigns[c].status = "scheduled"
    /\ d1 # d2
    /\ EffectiveDates(campaigns[c]) = {d1, d2}
    /\ DueDates(campaigns[c], clock) = {d1}
    /\ InstantOf(d2) > clock

\* C11 as stated: for a scheduled campaign with two scheduled dates of which
\* only the first is due, after one sweep the status is scheduled and sentDates
\* contains exactly the first date.
C11_FirstDateSentStaysScheduled ==
    [][\A c \in DOMAIN campaigns : \A d1, d2 \in EffectiveDates(campaigns[c]) :
         C11_FirstOfTwoDue(c, d1, d2) =>
            /\ campaigns'[c].status = "scheduled"
            /\ StoredSentDates(campaigns'[c]) = {d1}]_vars

\* C11 as amended: the same when at least one contact resolves for the campaign
\* and the sweep does not count failures without any success; when no contact
\* resolves the status is completed and sentDates stays empty; when the sweep
\* counts failures and no success the status is failed and sentDates is {d1}.
C11_FirstDateSentStaysScheduledUnlessFailed ==
    [][\A c \in DOMAIN campaigns : \A d1, d2 \in EffectiveDates(campaigns[c]) :
         C11_FirstOfTwoDue(c, d1, d2) =>
            IF Resolved(campaigns[c]) = {}
            THEN /\ campaigns'[c].status = "completed"
                 /\ StoredSentDates(campaigns'[c]) = {}
            ELSE /\ StoredSentDates(campaigns'[c]) = {d1}
                 /\ campaigns'[c].status =
                       IF last'.out[c].fail_count > 0 /\ last'.out[c].success_count = 0
                       THEN "failed" ELSE "scheduled"]_vars

\* A sweep has just sent the first of two dates of a campaign with contacts and
\* left it scheduled, the second date still ahead
C11_Witness ==
    \E c \in DOMAIN campaigns : \E d1, d2 \in EffectiveDates(campaigns[c]) :
        /\ last.op = "sweep"
        /\ c \in last.selected
        /\ last.out[c].processed
        /\ last.out[c].success_count > 0
        /\ EffectiveDates(campaigns[c]) = {d1, d2}
        /\ InstantOf(d1) >= 0 /\ InstantOf(d1) <= clock
        /\ InstantOf(d2) > clock
        /\ StoredSentDates(campaigns[c]) = {d1}
        /\ campaigns[c].status = "scheduled"

----------------------------------------------------------------------------
(* C12 *)

----------------------------------------------------------------------------
(* C13 *)

\* C13: for a campaign with a due date for which no contact resolves, a sweep
\* sets status to completed, makes no delivery call, adds no result record,
\* leaves sentDates and retryCounts unchanged, and counts the campaign as
\* processed with zero successes and zero failures.
C13_NoContactCompletes ==
    [][\A c \in DOMAIN campaigns :
         (/\ SweptIn(c)
          /\ DueDates(campaigns[c], clock) # {}
          /\ Resolved(campaigns[c]) = {})
         => /\ campaigns'[c].status = "completed"
            /\ last'.out[c].calls = {}
            /\ \A k \in ContactIds : attempts'[<<c, k>>] = attempts[<<c, k>>]
            /\ campaigns'[c].results = campaigns[c].results
            /\ StoredSentDates(campaigns'[c]) = StoredSentDates(campaigns[c])
            /\ StoredRetryCounts(campaigns'[c]) = StoredRetryCounts(campaigns[c])
            /\ last'.out[c].processed
            /\ last'.out[c].success_count = 0
            /\ last'.out[c].fail_count = 0]_vars

\* A sweep has completed a campaign whose selected ids match no contact of the
\* directory
C13_Witness ==
    \E c \in DOMAIN campaigns :
        /\ last.op = "sweep"
        /\ c \in last.selected
        /\ last.out[c].processed
        /\ campaigns[c].targetType = "selected"
        /\ campaigns[c].selectedContacts # {}
        /\ Resolved(campaigns[c]) = {}
        /\ campaigns[c].status = "completed"
        /\ campaigns[c].updatedAt = clock

----------------------------------------------------------------------------
(* C14 *)

\* The sweep of this step runs the send loop of campaign c
C14_SendLoopRuns(c) ==
    /\ SweptIn(c)
    /\ DueDates(campaigns[c], clock) # {}
    /\ ResolvedWithEmail(campaigns[c]) # {}
    /\ EmailOn(campaigns[c])

\* Contacts of the send loop whose counter has reached the ceiling
C14_Exhausted(doc) ==
    {k \in ResolvedWithEmail(doc) \ SentTo(doc) :
        StoredRetries(doc, k) >= MAX_RETRY_ATTEMPTS}

\* Contacts whose delivery was attempted and failed in the sweep of this step
C14_FailedAttempts(c) == last'.out[c].calls \ last'.out[c].delivered

\* C14 as stated: a failed delivery adds to the campaign's failure count on each
\* attempt up to and including the third, and a contact whose counter has
\* reached 3 no longer adds to the failure count of later sweeps: the failure
\* count of a sweep is the number of deliveries that failed in it.
C14_FailureCountIsFailedAttempts ==
    [][\A c \in DOMAIN campaigns :
         C14_SendLoopRuns(c) =>
            /\ \A k \in C14_FailedAttempts(c) :
                  /\ StoredRetries(campaigns[c], k) < MAX_RETRY_ATTEMPTS
                  /\ attempts'[<<c, k>>] <= MAX_RETRY_ATTEMPTS
            /\ last'.out[c].fail_count = Cardinality(C14_FailedAttempts(c))]_vars

\* C14 as amended: a failed delivery adds one to the failure count on each
\* attempt up to and including the third, and a contact whose counter has
\* reached 3 still adds one to the failure count of every later sweep that
\* runs the send loop, without a call: the failure count of a sweep is the
\* number of failed deliveries plus the number of exhausted contacts.
C14_FailureCountIncludesExhausted ==
    [][\A c \in DOMAIN campaigns :
         C14_SendLoopRuns(c) =>
            /\ \A k \in C14_FailedAttempts(c) :
                  /\ StoredRetries(campaigns[c], k) < MAX_RETRY_ATTEMPTS
                  /\ attempts'[<<c, k>>] <= MAX_RETRY_ATTEMPTS
            /\ C14_FailedAttempts(c) \cap C14_Exhausted(campaigns[c]) = {}
            /\ last'.out[c].fail_count =
                  Cardinality(C14_FailedAttempts(c))
                     + Cardinality(C14_Exhausted(campaigns[c]))]_vars

\* A sweep has counted a failure for a contact it did not call, whose counter
\* stood at 3 after three failed attempts, next to a contact counted as success
C14_Witness ==
    \E c \in DOMAIN campaigns, k \in ContactIds :
        /\ last.op = "sweep"
        /\ c \in last.selected
        /\ last.out[c].calls = {}
        /\ last.out[c].fail_count = 1
        /\ last.out[c].success_count = 1
        /\ k \in ResolvedWithEmail(campaigns[c]) \ SentTo(campaigns[c])
        /\ StoredRetries(campaigns[c], k) = MAX_RETRY_ATTEMPTS
        /\ attempts[<<c, k>>] = MAX_RETRY_ATTEMPTS

----------------------------------------------------------------------------
(* C15 *)

\* The fields of a document the dispatcher persists
C15_Persisted(doc) ==
    [status      |-> doc.status,
     results     |-> doc.results,
     sentDates   |-> StoredSentDates(doc),
     retryCounts |-> StoredRetryCounts(doc)]

\* The document a real sweep leaves of a campaign it selects when every delivery
\* it attempts succeeds
C15_RealSweepAllSucceeding(doc, now) ==
    update_one(doc, process_campaign(doc, now, EmailableIds, FALSE).update)

\* C15: a dry-run sweep makes no call to the delivery client, and the status,
\* results, sentDates and retryCounts it persists for each campaign are those a
\* real sweep persists from the same store state when every delivery it
\* attempts succeeds.
C15_DryRunPersistsAsAllSucceeding ==
    [][(last'.op = "sweep" /\ last'.dry_run) =>
          /\ attempts' = attempts
          /\ \A c \in last'.selected : last'.out[c].calls = {}
          /\ last'.selected = find_campaigns(campaigns)
          /\ \A c \in DOMAIN campaigns :
                C15_Persisted(campaigns'[c]) =
                   IF c \in last'.selected
                   THEN C15_Persisted(C15_RealSweepAllSucceeding(campaigns[c], clock))
                   ELSE C15_Persisted(campaigns[c])]_vars

\* A dry-run sweep has recorded a contact as sent with no call ever made for the
\* campaign
C15_Witness ==
    \E c \in DOMAIN campaigns, k \in EmailableIds :
        /\ last.op = "sweep" /\ last.dry_run
        /\ c \in last.selected
        /\ last.out[c].success_count > 0
        /\ k \in SentTo(campaigns[c])
        /\ StoredSentDates(campaigns[c]) # {}
        /\ \A j \in ContactIds : attempts[<<c, j>>] = 0

----------------------------------------------------------------------------
(* C20 *)

\* The answer is a response with status 200 whose success flag is true
C20_Accepted(reply) ==
    /\ reply.kind = "response"
    /\ reply.status_code = 200
    /\ reply.body.json
    /\ "success" \in DOMAIN reply.body.fields
    /\ reply.body.fields.success = TRUE

\* C20: one call of the delivery client makes exactly one network request and
\* never raises; it returns (true, no error) exactly when the response has
\* status 200 and its success flag is true, and (false, error text) for a 200
\* response with the flag false or absent, for any other status code, for a
\* timeout and for any other exception.
C20_DeliveryClientResult ==
    last.op = "return" =>
        /\ Len(last.result.posted) = 1
        /\ last.result.posted[1].to_email = last.call.to_email
        /\ ~last.result.raised
        /\ last.result.success = C20_Accepted(last.call.reply)
        /\ last.result.success => last.result.error = NoError
        /\ ~last.result.success => last.result.error \notin {NoError, ""}

\* A call answered 200 with the flag false has returned the error text of the
\* body, and one answered 200 with the flag absent has returned a failure
C20_Witness ==
    /\ last.op = "return"
    /\ last.call.reply.kind = "response"
    /\ last.call.reply.status_code = 200
    /\ last.call.reply.body.json
    /\ ~Get(last.call.reply.body.fields, "success", FALSE)
    /\ ~last.result.success
    /\ last.result.error \in {"quota", "Erreur inconnue"}

----------------------------------------------------------------------------
(* C18 *)

\* Deliveries made that the store does not record as sent
C18_Unrecorded(store, made) ==
    {p \in made : p[2] \notin SentTo(store[p[1]])}

\* C18 as stated: if a sweep crashes at any point, every campaign whose update
\* was persisted keeps its new state, and every other campaign is untouched and
\* has had no delivery made on its behalf that the store does not record (so
\* that no contact delivered to is sent to again by the next sweep).
C18_CrashLosesNoDelivery ==
    [][last'.op = "crash" =>
          /\ campaigns' = campaigns
          /\ C18_Unrecorded(campaigns', deliveries')
                \subseteq C18_Unrecorded(campaigns, deliveries)]_vars

\* C18 as amended: if a sweep crashes at any point, every campaign whose update
\* was persisted keeps its new state with the deliveries of this sweep recorded
\* as sent, and every other campaign's document is untouched; deliveries the
\* store does not record are made only for the one campaign that was being
\* processed when the crash came, whose contacts are left without a sent record.
C18_CrashLosesOnlyCampaignInProgress ==
    [][last'.op = "crash" =>
          /\ campaigns' = campaigns
          /\ \A c \in DOMAIN running.out : \A k \in running.out[c].delivered :
                k \in SentTo(campaigns'[c])
          /\ \A p \in deliveries' \ deliveries :
                /\ p[1] = last'.id
                /\ p[1] \in running.todo
                /\ p[2] \in last'.calls
                /\ p[2] \notin SentTo(campaigns'[p[1]])]_vars

\* A crash has come after a delivery of one campaign was made and before its
\* update, the other campaign's deliveries of the same sweep being recorded
C18_Witness ==
    /\ last.op = "crash"
    /\ last.calls # {}
    /\ \E k \in last.calls :
          /\ <<last.id, k>> \in deliveries
          /\ k \notin SentTo(campaigns[last.id])
    /\ \E c \in DOMAIN campaigns \ {last.id} : \E k \in ContactIds :
          /\ <<c, k>> \in deliveries
          /\ k \in SentTo(campaigns[c])
          /\ campaigns[c].updatedAt = clock

----------------------------------------------------------------------------
(* C19 *)

\* C19: an exception raised while processing one campaign is caught at the
\* sweep loop: that campaign is not counted as processed, and every other
\* campaign the sweep selected is still processed in the same sweep.
C19_ExceptionSkipsOneCampaign ==
    last.op = "finish" =>
        /\ last.selected = DOMAIN last.out \cup last.raised
        /\ DOMAIN last.out \cap last.raised = {}
        /\ last.campaigns_processed =
              Cardinality({c \in last.selected \ last.raised : last.out[c].processed})
        /\ \A c \in last.selected \ last.raised :
              last.out[c].processed => campaigns[c].updatedAt = clock

\* A sweep has ended in which one campaign raised and the other was processed
\* and counted
C19_Witness ==
    /\ last.op = "finish"
    /\ last.raised # {}
    /\ last.campaigns_processed = 1
    /\ \E c \in last.selected \ last.raised :
          /\ last.out[c].processed
          /\ last.out[c].success_count > 0

----------------------------------------------------------------------------
(* C16 *)

\* The fields the dispatcher writes
C16_DispatcherFields ==
    {"status", "results", "sentDates", "retryCounts", "updatedAt", "lastProcessedAt"}

\* C16: a management write to a field the dispatcher does not own that lands
\* between the sweep's read of the campaign and the dispatcher's write for it
\* is still in the store after that write: a dispatcher write changes, adds and
\* removes no field other than status, results, sentDates, retryCounts,
\* updatedAt and lastProcessedAt of the document as it is in the store.
C16_DispatcherWriteKeepsOtherFields ==
    [][last'.op = "process" =>
          \A c \in DOMAIN campaigns :
             /\ DOMAIN campaigns[c] \subseteq DOMAIN campaigns'[c]
             /\ DOMAIN campaigns'[c] \ DOMAIN campaigns[c] \subseteq C16_DispatcherFields
             /\ \A f \in DOMAIN campaigns[c] \ C16_DispatcherFields :
                   campaigns'[c][f] = campaigns[c][f]]_vars

\* The dispatcher has written a campaign whose name, message, dates, target or
\* channels were changed by an update after the sweep read it, and the change is
\* in the store
C16_Witness ==
    \E c \in DOMAIN campaigns :
        /\ last.op = "process"
        /\ last.id = c
        /\ last.report.processed
        /\ campaigns[c].lastProcessedAt = clock
        /\ \E data \in UpdateBodies :
              /\ DOMAIN data \cap C16_DispatcherFields = {}
              /\ \A f \in DOMAIN data :
                    /\ campaigns[c][f] = data[f]
                    /\ f \in DOMAIN running.snapshot[c] =>
                          running.snapshot[c][f] # data[f]

----------------------------------------------------------------------------
(* C17 *)

\* The step changes the status or the results of campaign c
C17_StatusOrResultsChange(c) ==
    \/ campaigns'[c].status # campaigns[c].status
    \/ campaigns'[c].results # campaigns[c].results

\* C17 as stated: after a campaign is created, its status and its results are
\* changed only by the dispatcher: no update, launch or mark-sent request
\* changes the status or the results of an existing campaign.
C17_OnlyDispatcherChangesStatusResults ==
    [][\A c \in DOMAIN campaigns :
         C17_StatusOrResultsChange(c) => last'.op = "process"]_vars

\* C17 as amended: the status and the results of an existing campaign are
\* changed by the dispatcher, by a launch, by a mark-sent and by an update whose
\* body names status or results, and by nothing else: an update whose body
\* names neither leaves both as they are.
C17_StatusResultsChangedByLaunchMarkSentToo ==
    [][\A c \in DOMAIN campaigns :
         C17_StatusOrResultsChange(c) =>
            \/ last'.op \in {"process", "launch", "mark_sent"}
            \/ /\ last'.op = "update"
               /\ last'.fields \cap {"status", "results"} # {}]_vars

\* A mark-sent request has set a record of a launched campaign to sent
C17_Witness ==
    \E c \in DOMAIN campaigns :
        /\ last.op = "mark_sent"
        /\ last.id = c
        /\ \E i \in 1..Len(campaigns[c].results) :
              /\ campaigns[c].results[i].status = "sent"
              /\ campaigns[c].results[i].channel = "whatsapp"
              /\ campaigns[c].results[i].sentAt = clock
        /\ requests = 1

----------------------------------------------------------------------------
(* C22 *)

\* The sweep of this step runs the send loop of campaign c: it has a due date,
\* a resolved contact and the email channel enabled
C22_AfterSendLoop(c) ==
    /\ SweptIn(c)
    /\ DueDates(campaigns[c], clock) # {}
    /\ Resolved(campaigns[c]) # {}
    /\ EmailOn(campaigns[c])

\* C22: after the send loop the persisted status is failed when the failure
\* count is positive and the success count zero (even if every scheduled date is
\* then in sentDates), otherwise completed when sentDates with the due dates
\* holds every scheduled date, otherwise scheduled; in all three cases the
\* persisted sentDates is the old sentDates with the due dates.
C22_StatusFromCountsAndDates ==
    [][\A c \in DOMAIN campaigns :
         C22_AfterSendLoop(c) =>
            LET after == StoredSentDates(campaigns[c]) \cup DueDates(campaigns[c], clock)
            IN /\ StoredSentDates(campaigns'[c]) = after
               /\ campaigns'[c].status =
                     IF last'.out[c].fail_count > 0 /\ last'.out[c].success_count = 0
                     THEN "failed"
                     ELSE IF EffectiveDates(campaigns[c]) \subseteq after
                     THEN "completed"
                     ELSE "scheduled"]_vars

\* A sweep whose sends all failed has left the campaign failed with every
\* scheduled date in sentDates
C22_Witness ==
    \E c \in DOMAIN campaigns :
        /\ last.op = "sweep"
        /\ c \in last.selected
        /\ last.out[c].fail_count > 0
        /\ last.out[c].success_count = 0
        /\ campaigns[c].status = "failed"
        /\ EffectiveDates(campaigns[c]) # {}
        /\ EffectiveDates(campaigns[c]) \subseteq StoredSentDates(campaigns[c])

----------------------------------------------------------------------------
(* C23 *)

\* The (contact, email) records of a document
C23_RecordsOf(doc, k) ==
    {doc.results[i] : i \in {j \in 1..Len(doc.results) :
                                /\ doc.results[j].contactId = k
                                /\ doc.results[j].channel = "email"}}

\* Contacts of the send loop, not already sent, whose counter has reached 3
C23_AtCeiling(doc) ==
    {k \in ResolvedWithEmail(doc) \ SentTo(doc) :
        StoredRetries(doc, k) >= MAX_RETRY_ATTEMPTS}

\* C23: in the send loop a contact that is not already sent and whose retry
\* counter has reached 3 is counted as one failure, gets no delivery attempt,
\* and its retry counter and result record are left unchanged.
C23_ExhaustedContactCountedNotCalled ==
    [][\A c \in DOMAIN campaigns :
         C22_AfterSendLoop(c) =>
            /\ \A k \in C23_AtCeiling(campaigns[c]) :
                  /\ k \notin last'.out[c].calls
                  /\ attempts'[<<c, k>>] = attempts[<<c, k>>]
                  /\ StoredRetries(campaigns'[c], k) = StoredRetries(campaigns[c], k)
                  /\ C23_RecordsOf(campaigns'[c], k) = C23_RecordsOf(campaigns[c], k)
            /\ last'.out[c].fail_count
                  - Cardinality(last'.out[c].calls \ last'.out[c].delivered)
               = Cardinality(C23_AtCeiling(campaigns[c]))]_vars

\* A sweep has counted one failure for a launched campaign's contact whose
\* counter stands at 3 and whose record is still pending
C23_Witness ==
    \E c \in DOMAIN campaigns, k \in ContactIds :
        /\ last.op = "sweep"
        /\ c \in last.selected
        /\ k \in C23_AtCeiling(campaigns[c])
        /\ k \notin last.out[c].calls
        /\ last.out[c].fail_count >= 1
        /\ \E r \in C23_RecordsOf(campaigns[c], k) : r.status = "pending"

----------------------------------------------------------------------------
(* C24 *)

\* C24: a failed delivery attempt raises that contact's retry counter by
\* exactly one and the failure count by one and neither adds nor changes a
\* result record (a pending record stays pending, an absent one absent); a
\* successful attempt leaves the retry counter unchanged.
C24_FailedAttemptEffects ==
    [][\A c \in DOMAIN campaigns :
         C22_AfterSendLoop(c) =>
            LET failed == last'.out[c].calls \ last'.out[c].delivered
            IN /\ \A k \in failed :
                     /\ StoredRetries(campaigns'[c], k) = StoredRetries(campaigns[c], k) + 1
                     /\ C23_RecordsOf(campaigns'[c], k) = C23_RecordsOf(campaigns[c], k)
               /\ \A k \in last'.out[c].delivered :
                     StoredRetries(campaigns'[c], k) = StoredRetries(campaigns[c], k)
               /\ Len(campaigns'[c].results) - Len(campaigns[c].results)
                     <= Cardinality(ResolvedWithEmail(campaigns[c]) \ failed)
               /\ last'.out[c].fail_count >= Cardinality(failed)
               /\ last'.out[c].fail_count - Cardinality(failed)
                     <= Cardinality(ResolvedWithEmail(campaigns[c]) \ last'.out[c].calls)]_vars

\* A sweep has failed a delivery for a contact with a pending record: the
\* counter stands at 2 and the record is still pending
C24_Witness ==
    \E c \in DOMAIN campaigns, k \in ContactIds :
        /\ last.op = "sweep"
        /\ c \in last.selected
        /\ k \in last.out[c].calls \ last.out[c].delivered
        /\ StoredRetries(campaigns[c], k) = 2
        /\ attempts[<<c, k>>] = 2
        /\ \E r \in C23_RecordsOf(campaigns[c], k) : r.status = "pending"

----------------------------------------------------------------------------
(* C25 *)

\* C25: a contact without an email address gets no delivery attempt, no result
\* record and no retry-counter change and adds to neither count: the two counts
\* add up to the number of resolved contacts that have an email; a campaign
\* whose resolved contacts all lack an email ends the sweep with zero successes
\* and zero failures and status completed or scheduled, never failed.
C25_ContactWithoutEmailSkipped ==
    [][\A c \in DOMAIN campaigns :
         C22_AfterSendLoop(c) =>
            /\ \A k \in Resolved(campaigns[c]) \ ResolvedWithEmail(campaigns[c]) :
                  /\ k \notin last'.out[c].calls
                  /\ attempts'[<<c, k>>] = attempts[<<c, k>>]
                  /\ StoredRetries(campaigns'[c], k) = StoredRetries(campaigns[c], k)
                  /\ <<k, "email">> \in DOMAIN StoredRetryCounts(campaigns'[c])
                        <=> <<k, "email">> \in DOMAIN StoredRetryCounts(campaigns[c])
                  /\ C23_RecordsOf(campaigns'[c], k) = C23_RecordsOf(campaigns[c], k)
            /\ last'.out[c].success_count + last'.out[c].fail_count
                  = Cardinality(ResolvedWithEmail(campaigns[c]))
            /\ ResolvedWithEmail(campaigns[c]) = {} =>
                  /\ last'.out[c].success_count = 0
                  /\ last'.out[c].fail_count = 0
                  /\ campaigns'[c].status \in {"completed", "scheduled"}]_vars

\* A sweep has run the send loop of a campaign whose only resolved contact has
\* no email: nothing counted, the due date folded, the campaign not failed
C25_Witness ==
    \E c \in DOMAIN campaigns :
        /\ last.op = "sweep"
        /\ c \in last.selected
        /\ last.out[c].processed
        /\ EmailOn(campaigns[c])
        /\ Resolved(campaigns[c]) # {}
        /\ ResolvedWithEmail(campaigns[c]) = {}
        /\ last.out[c].success_count = 0
        /\ last.out[c].fail_count = 0
        /\ campaigns[c].lastProcessedAt = clock
        /\ campaigns[c].status \in {"completed", "scheduled"}

----------------------------------------------------------------------------
(* C26 *)

\* The scheduled dates of a document that are not in its sentDates
C26_Outstanding(doc) == EffectiveDates(doc) \ StoredSentDates(doc)

\* C26: a scheduled date that cannot be parsed is never due and is never added
\* to sentDates by any sweep, and a campaign whose only outstanding scheduled
\* dates are unparseable is left unchanged by a sweep.
C26_UnparseableDateNeverProcessed ==
    /\ [](\A c \in DOMAIN campaigns :
             \A d \in StoredSentDates(campaigns[c]) : InstantOf(d) >= 0)
    /\ [][\A c \in DOMAIN campaigns :
            (/\ SweptIn(c)
             /\ C26_Outstanding(campaigns[c]) # {}
             /\ \A d \in C26_Outstanding(campaigns[c]) : InstantOf(d) < 0)
            => /\ campaigns'[c] = campaigns[c]
               /\ ~last'.out[c].processed
               /\ last'.out[c].calls = {}]_vars

\* A sweep has passed over a campaign whose first date is sent and whose
\* second date, past any clock reading, cannot be parsed
C26_Witness ==
    \E c \in DOMAIN campaigns :
        /\ last.op = "sweep"
        /\ c \in last.selected
        /\ ~last.out[c].processed
        /\ StoredSentDates(campaigns[c]) # {}
        /\ C26_Outstanding(campaigns[c]) # {}
        /\ \A d \in C26_Outstanding(campaigns[c]) : InstantOf(d) < 0
        /\ campaigns[c].updatedAt < clock

----------------------------------------------------------------------------
(* C27 *)

\* C27: a sweep processes only campaigns whose status was scheduled or sending
\* when it read the store; a campaign in status draft, completed or failed is
\* not modified and not sent for by a sweep.
C27_OnlyScheduledOrSendingProcessed ==
    [][last'.op = "sweep" =>
          \A c \in DOMAIN campaigns :
             IF campaigns[c].status \in {"scheduled", "sending"}
             THEN c \in last'.selected
             ELSE /\ c \notin last'.selected
                  /\ campaigns'[c] = campaigns[c]
                  /\ \A k \in ContactIds : attempts'[<<c, k>>] = attempts[<<c, k>>]]_vars

\* A sweep has passed over a failed campaign that has a due date and a contact
\* never delivered to
C27_Witness ==
    \E c \in DOMAIN campaigns :
        /\ last.op = "sweep"
        /\ c \notin last.selected
        /\ campaigns[c].status = "failed"
        /\ DueDates(campaigns[c], clock) # {}
        /\ ResolvedWithEmail(campaigns[c]) \ SentTo(campaigns[c]) # {}

----------------------------------------------------------------------------
(* C29 *)

\* The scheduledAt of a document is set
C29_HasScheduledAt(doc) == "scheduledAt" \in DOMAIN doc /\ doc.scheduledAt.tz # "None"

\* The scheduledDates of a document as a set, empty when absent
C29_ListedDates(doc) ==
    IF "scheduledDates" \in DOMAIN doc
    THEN {doc.scheduledDates[i] : i \in 1..Len(doc.scheduledDates)}
    ELSE {}

\* The dates of a set that are past and not in the document's sentDates
C29_DueAmong(dates, doc, now) ==
    {d \in dates : InstantOf(d) >= 0 /\ InstantOf(d) <= now /\ d \notin StoredSentDates(doc)}

\* C29: date resolution takes scheduledAt as a one-element set of scheduled
\* dates only when scheduledDates is absent or empty; when scheduledDates is
\* non-empty scheduledAt is ignored; a campaign with neither is skipped
\* unchanged.
C29_DateResolution ==
    [][\A c \in DOMAIN campaigns :
         SweptIn(c) =>
            LET doc   == campaigns[c]
                dates == IF C29_ListedDates(doc) # {} THEN C29_ListedDates(doc)
                         ELSE IF C29_HasScheduledAt(doc) THEN {doc.scheduledAt}
                         ELSE {}
                due   == C29_DueAmong(dates, doc, clock)
            IN /\ last'.out[c].processed <=> due # {}
               /\ due = {} => campaigns'[c] = doc
               /\ StoredSentDates(campaigns'[c]) \ StoredSentDates(doc) \subseteq due
               /\ (due # {} /\ Resolved(doc) # {}) =>
                     StoredSentDates(campaigns'[c]) = StoredSentDates(doc) \cup due]_vars

\* A sweep has processed the listed date of a campaign and passed over its
\* scheduledAt, which is past, not listed and not in sentDates
C29_Witness ==
    \E c \in DOMAIN campaigns :
        /\ last.op = "sweep"
        /\ c \in last.selected
        /\ last.out[c].processed
        /\ C29_HasScheduledAt(campaigns[c])
        /\ C29_ListedDates(campaigns[c]) # {}
        /\ campaigns[c].scheduledAt \notin C29_ListedDates(campaigns[c])
        /\ InstantOf(campaigns[c].scheduledAt) <= clock
        /\ campaigns[c].scheduledAt \notin StoredSentDates(campaigns[c])
        /\ StoredSentDates(campaigns[c]) # {}

----------------------------------------------------------------------------
(* C28 *)

\* The campaigns of the sweep under way that had a due date when they were
\* processed and whose processing did not raise
C28_DueAndReturned ==
    {c \in DOMAIN running.snapshot \ running.raised :
        DueDates(running.snapshot[c], clock) # {}}

\* C28: the sweep's processed count is the number of selected campaigns that
\* had at least one due date and whose processing did not raise, and its total
\* successes and total failures are the sums of the success and failure counts
\* of exactly those campaigns.
C28_SweepTotals ==
    [][last'.op = "finish" =>
          /\ C28_DueAndReturned \subseteq DOMAIN running.out
          /\ last'.campaigns_processed = Cardinality(C28_DueAndReturned)
          /\ last'.total_success =
                SumOver([c \in C28_DueAndReturned |-> running.out[c].success_count],
                        C28_DueAndReturned)
          /\ last'.total_fail =
                SumOver([c \in C28_DueAndReturned |-> running.out[c].fail_count],
                        C28_DueAndReturned)]_vars

\* A sweep over two campaigns has ended with both counted, three contacts
\* counted in all, successes and failures among them
C28_Witness ==
    /\ last.op = "finish"
    /\ Cardinality(last.selected) = 2
    /\ last.raised = {}
    /\ last.campaigns_processed = 2
    /\ last.total_success + last.total_fail = 3
    /\ last.total_success > 0
    /\ last.total_fail > 0

----------------------------------------------------------------------------
(* C21 *)

\* C21: when two sweeps overlap on a campaign (both read it before either
\* persists), no retry-counter increment is lost, no result record written by
\* one is overwritten by the other's stale copy, and no contact is delivered to
\* twice for that campaign: every write of either sweep adds one to the stored
\* counter of each contact whose delivery it failed, keeps every sent record
\* the store holds, and follows no delivery to a contact delivered to before.
C21_OverlappingSweepsLoseNothing ==
    [][last'.op = "process" =>
          LET c == last'.id
          IN /\ \A k \in last'.report.calls \ last'.report.delivered :
                   StoredRetries(campaigns'[c], k) = StoredRetries(campaigns[c], k) + 1
             /\ SentTo(campaigns[c]) \subseteq SentTo(campaigns'[c])
             /\ \A k \in last'.report.delivered : <<c, k>> \notin deliveries]_vars

----------------------------------------------------------------------------
(* C30 *)

\* C30: in loop mode an exception that escapes one sweep does not end the
\* process: after every such exception, however many came before, the interval
\* is slept and then run_scheduler is called again.
C30_LoopSurvivesSweepException ==
    [](last.op = "raise" =>
          <>(last.op = "sleep" /\ <>(last.op \in {"sweep", "raise"})))

\* A sweep run after the sweep before it had raised, and raising in its turn
C30_Witness ==
    /\ last.op = "raise"
    /\ last.previous = "raise"
    /\ clock = MaxTime

----------------------------------------------------------------------------
(* C31 *)

\* The campaign is waiting (scheduled or sending), has scheduled dates, and
\* every one of them denotes an instant
C31_WaitingWithParseableDates(doc) ==
    /\ doc.status \in {"scheduled", "sending"}
    /\ EffectiveDates(doc) # {}
    /\ \A d \in EffectiveDates(doc) : InstantOf(d) >= 0

\* Every scheduled date of the campaign has passed
C31_LastDatePassed(doc, now) ==
    \A d \in EffectiveDates(doc) : InstantOf(d) <= now

\* C31: under repeated sweeps with no store error and no management write, a
\* campaign in status scheduled or sending whose scheduled dates are all
\* parseable leaves the scheduled/sending set (reaches completed or failed) no
\* later than the first sweep that runs after its last scheduled date has
\* passed: any sweep run when all its dates have passed leaves it completed or
\* failed.
C31_LeavesWaitingSetAfterLastDate ==
    [][last'.op = "sweep" =>
          \A c \in DOMAIN campaigns :
              (/\ C31_WaitingWithParseableDates(campaigns[c])
               /\ C31_LastDatePassed(campaigns[c], clock))
              => campaigns'[c].status \in {"completed", "failed"}]_vars

\* A sweep run after both dates of a campaign had passed found its contacts
\* delivered to by an earlier sweep, called nobody and left it completed
C31_Witness ==
    \E c \in DOMAIN campaigns :
        /\ last.op = "sweep"
        /\ c \in last.selected
        /\ last.out[c].processed
        /\ last.out[c].calls = {}
        /\ SentTo(campaigns[c]) # {}
        /\ Cardinality(EffectiveDates(campaigns[c])) >= 2
        /\ C31_LastDatePassed(campaigns[c], clock)
        /\ campaigns[c].status = "completed"

----------------------------------------------------------------------------
(* C32 *)

\* The sweep takes campaign c to the channel gate or to the send loop: a date
\* is due and a contact resolves
C32_ReachesGateOrLoop(c) ==
    /\ SweptIn(c)
    /\ DueDates(campaigns[c], clock) # {}
    /\ Resolved(campaigns[c]) # {}

----------------------------------------------------------------------------
(* C33 *)

\* The scheduled dates a management operation gave campaign c after the sweep
\* under way had read it
C33_AddedSinceRead(c) ==
    IF running.active /\ c \in DOMAIN running.snapshot
    THEN EffectiveDates(campaigns[c]) \ EffectiveDates(running.snapshot[c])
    ELSE {}

\* C33: if a management operation adds a scheduled date to a campaign after
\* the sweep has read the campaign and before the dispatcher persists it, the
\* dispatcher does not set the campaign to completed while that added date is
\* outside sentDates, and the added date is processed by a later sweep once it
\* is due. The formula is the first half, on which the second rests (a sweep
\* selects no completed campaign): the persist of a turn of the for loop does
\* not leave the campaign completed with an added date outside sentDates.
C33_AddedDateNotLost ==
    [][last'.op = "process" =>
          LET c == last'.id
          IN (C33_AddedSinceRead(c) \ StoredSentDates(campaigns'[c]) # {}) =>
                campaigns'[c].status # "completed"]_vars

----------------------------------------------------------------------------
(* C34 *)

\* The (contact, channel) pairs with a result record of status sent
C34_SentRecords(doc) ==
    {<<doc.results[i].contactId, doc.results[i].channel>> :
        i \in {j \in 1..Len(doc.results) : doc.results[j].status = "sent"}}

\* The result records of a document
C34_Records(doc) == {doc.results[i] : i \in 1..Len(doc.results)}

\* C34: a result record that has status sent in the store keeps status sent in
\* every later state, for any interleaving of dispatcher sweeps with the
\* mark-sent management operation: no step of the dispatcher or of mark-sent
\* takes a (contact, channel) pair out of the sent records, and every record
\* the dispatcher writes that was neither read by it nor in the store has
\* status sent.
C34_SentRecordStaysSent ==
    [][last'.op \notin {"update", "launch"} =>
          \A c \in DOMAIN campaigns :
              /\ C34_SentRecords(campaigns[c]) \subseteq C34_SentRecords(campaigns'[c])
              /\ (last'.op = "process" /\ last'.id = c) =>
                    \A r \in C34_Records(campaigns'[c]) \
                              (C34_Records(campaigns[c]) \cup C34_Records(running.snapshot[c])) :
                        r.status = "sent"]_vars

----------------------------------------------------------------------------
(* C35 *)

\* C35: every status value the dispatcher writes is one of scheduled,
\* completed or failed; the dispatcher never writes draft or sending, so a
\* campaign picked up in status sending leaves that status at the first sweep
\* in which it has a due date: a sweep changes a status only to one of the
\* three values and leaves every selected campaign that has a due date in one
\* of them.
C35_DispatcherStatusValues ==
    [][last'.op = "sweep" =>
          \A c \in DOMAIN campaigns :
              /\ campaigns'[c].status # campaigns[c].status =>
                    campaigns'[c].status \in {"scheduled", "completed", "failed"}
              /\ (c \in last'.selected /\ DueDates(campaigns[c], clock) # {}) =>
                    campaigns'[c].status \in {"scheduled", "completed", "failed"}]_vars

\* A launched campaign (its pending records are the launch's) that a sweep
\* found with one of its dates due and left scheduled for the other
C35_Witness ==
    \E c \in DOMAIN campaigns :
        /\ last.op = "sweep"
        /\ c \in last.selected
        /\ last.out[c].processed
        /\ \E i \in 1..Len(campaigns[c].results) : campaigns[c].results[i].status = "pending"
        /\ StoredSentDates(campaigns[c]) # {}
        /\ campaigns[c].status = "scheduled"

====
